---- MODULE Spec2Model ----
(***************************************************************************)
(* Scheduled-post publishing pipeline of the social-media backend:         *)
(* src/utils/jobQueue.js (the scheduler facade with its Bull/Redis backend *)
(* and its in-memory fallback), the REST controller                        *)
(* src/controllers/scheduled.js and the GraphQL mutations of               *)
(* src/graphql/resolvers.js.                                               *)
(*                                                                         *)
(* Time is counted in whole seconds.  A scheduledTime of 0 stands for a    *)
(* request without a scheduledTime (every falsy value of the body field);  *)
(* the route documents the field as an ISO date string, so every time that *)
(* a request carries is a positive clock value.                            *)
(***************************************************************************)
EXTENDS Integers, Sequences, FiniteSets, TLC

(* ------------------------------ bounds --------------------------------- *)
MaxUser == 2
MaxNear == 2
MaxJobs == 1
MaxPending == 1
MaxFailures == 3
MaxProbeJobs == 2
MaxAmong == 2

(* ------------------------- program constants --------------------------- *)
\* largest duration (2^31-1 ms, in whole seconds) that setTimeout honours;
\* a longer duration is replaced by 1 ms
TIMEOUT_MAX == 2147483
\* 365 * 24 * 60 * 60 * 1000 ms
OneYear == 365 * 24 * 60 * 60
\* defaultJobOptions.attempts
attempts == 3
\* defaultJobOptions.backoff.delay, 2000 ms
backoffDelay == 2

Users == 1..MaxUser
Near == 1..MaxNear
\* the scheduledTime values requests carry: the near future
Times == Near
\* together with the times just around the longest timer duration and just
\* around the one-year horizon
FarTimes == Near \cup {TIMEOUT_MAX + k : k \in Near} \cup {OneYear + k : k \in Near}
NoTime == 0
Contents == {"hello"}
AuthorContents == Contents \cup {"bye"}
NoContent == ""
NoError == "none"
Unset == -1
InvalidDate == -1

MemId(n) == <<"memory-job", n>>
BullId(u, t) == <<"scheduled-post", u, t>>
IsMemId(id) == id[1] = "memory-job"

VARIABLES
    now,                 \* the clock, new Date() / Date.now()
    initDone,            \* initializeQueue() has finished
    isRedisAvailable,
    scheduledPostsQueue, \* TRUE once the Bull queue object exists
    inMemoryJobs,        \* Map jobId -> jobData
    jobIdCounter,
    timers,              \* the setTimeout callbacks, by jobId
    bullJobs,            \* the jobs of the 'scheduled posts' queue in Redis
    testQueue,           \* how many jobs the queue 'test' holds in Redis
    posts,               \* the invocations of Post.createPost
    failures,            \* how often Post.createPost has failed
    issued,              \* the results schedulePost has returned
    pending,             \* cancel requests suspended between check and act
    response             \* the answer on its way to the caller, if any

vars == <<now, initDone, isRedisAvailable, scheduledPostsQueue, inMemoryJobs,
          jobIdCounter, timers, bullJobs, testQueue, posts, failures, issued,
          pending, response>>

\* everything the scheduler owns, in either backend
schedulerState == <<isRedisAvailable, scheduledPostsQueue, inMemoryJobs,
                    jobIdCounter, timers, bullJobs, posts, issued>>

NoJob == <<"none", 0>>
NoUser == 0

\* the request a response answers: the entry point, the call and what the
\* answer depends on, the content and scheduledTime of a schedule request,
\* the caller and the job identifier of a cancel request
SchedReq(op, content, scheduledTime) ==
    [op |-> op, call |-> "schedule", userId |-> NoUser, content |-> content,
     time |-> scheduledTime, jobId |-> NoJob]
CancelReq(op, userId, jobId) ==
    [op |-> op, call |-> "cancel", userId |-> userId, content |-> NoContent,
     time |-> NoTime, jobId |-> jobId]

\* the outcome a caller sees: HTTP status for the REST controller,
\* data/errors for GraphQL, returned/threw for a direct call
Resp(req, status, body) ==
    [req |-> req, status |-> status, body |-> body, jobId |-> NoJob]

Ok(op) == CASE op = "rest" -> "20x" [] op = "graphql" -> "data" [] OTHER -> "returned"
Err(op) == CASE op = "rest" -> "500" [] op = "graphql" -> "errors" [] OTHER -> "threw"

\* the facade's result { jobId, status } as the entry point hands it on
Result(req, jobId, status) ==
    [req |-> req, status |-> Ok(req.op), body |-> status, jobId |-> jobId]

\* no answer is on its way
NoResponse ==
    [req |-> [op |-> "none", call |-> "none", userId |-> NoUser,
              content |-> NoContent, time |-> NoTime, jobId |-> NoJob],
     status |-> "none", body |-> "none", jobId |-> NoJob]

\* no answer is on its way: an answer is handed to the caller before the
\* process takes its next step
Idle == response = NoResponse

Init ==
    /\ now = 1
    /\ initDone = FALSE
    /\ isRedisAvailable = FALSE
    /\ scheduledPostsQueue = FALSE
    /\ inMemoryJobs = <<>>
    /\ jobIdCounter = 1
    /\ timers = <<>>
    /\ bullJobs = <<>>
    /\ testQueue = 0
    /\ posts = {}
    /\ failures = 0
    /\ issued = {}
    /\ pending = {}
    /\ response = NoResponse

(* --------------------------- initializeQueue --------------------------- *)
\* testRedisConnection: `await testQueue.add('test', {})` puts a job into the
\* queue 'test' when Redis answers, and `await testQueue.close()` closes the
\* connection
ProbeAdd(ok) == IF ok THEN testQueue + 1 ELSE testQueue

\* a startup that probes again whenever it is asked to
InitializeQueueAgain(ok) ==
    /\ initDone' = TRUE
    /\ testQueue' = ProbeAdd(ok)
    /\ isRedisAvailable' = ok
    /\ scheduledPostsQueue' = ok
    /\ UNCHANGED response
    /\ UNCHANGED <<now, inMemoryJobs, jobIdCounter, timers, bullJobs, posts,
                   failures, issued, pending>>

\* testRedisConnection resolves to ok; the continuation of initializeQueue
\* sets the flag and, when ok, constructs the queue and binds the worker.
InitializeQueue(ok) ==
    /\ ~initDone
    /\ initDone' = TRUE
    /\ testQueue' = ProbeAdd(ok)
    /\ isRedisAvailable' = ok
    /\ scheduledPostsQueue' = ok
    /\ UNCHANGED response
    /\ UNCHANGED <<now, inMemoryJobs, jobIdCounter, timers, bullJobs, posts,
                   failures, issued, pending>>

\* the process ends while it is at rest and the module is loaded again: the
\* module's variables start afresh and the timers are gone, Redis keeps its
\* queues
Restart ==
    /\ initDone
    /\ testQueue < MaxProbeJobs
    /\ pending = {}
    /\ \A id \in DOMAIN timers : timers[id].state # "running"
    /\ \A id \in DOMAIN bullJobs : bullJobs[id].state # "active"
    /\ initDone' = FALSE
    /\ isRedisAvailable' = FALSE
    /\ scheduledPostsQueue' = FALSE
    /\ inMemoryJobs' = <<>>
    /\ jobIdCounter' = 1
    /\ timers' = <<>>
    /\ UNCHANGED response
    /\ UNCHANGED <<now, bullJobs, testQueue, posts, failures, issued, pending>>

(* ----------------------------- schedulePost ---------------------------- *)
FutureMsg == "Scheduled time must be in the future"

\* a facade that lets a delay of zero pass
InvalidDelayNegative(delay) == delay < 0

\* if (delay <= 0) throw
InvalidDelay(delay) == delay <= 0

\* a facade that turns to the queue as soon as the startup has finished
UseBullOnceStarted == initDone

\* isRedisAvailable && scheduledPostsQueue
UseBull == isRedisAvailable /\ scheduledPostsQueue

\* setTimeout(callback, delay): a duration above TIMEOUT_MAX is replaced by
\* 1 ms, which is below the resolution of the clock
TimerDelay(delay) == IF delay > TIMEOUT_MAX THEN 0 ELSE delay

\* an entry that is created with a status of its own and an empty error
NewJobDataPending(jobId, postData, userId, scheduledTime) ==
    [id |-> jobId, postData |-> postData, userId |-> userId,
     scheduledTime |-> scheduledTime, status |-> "pending",
     createdAt |-> now, error |-> ""]

\* const jobData = { id, postData, userId, scheduledTime, status, createdAt }
NewJobData(jobId, postData, userId, scheduledTime) ==
    [id |-> jobId, postData |-> postData, userId |-> userId,
     scheduledTime |-> scheduledTime, status |-> "scheduled",
     createdAt |-> now, error |-> NoError]

NewTimer(postData, userId, delay) ==
    [state |-> "armed", fireAt |-> now + TimerDelay(delay),
     postData |-> postData, userId |-> userId]

\* scheduledPostsQueue.add('createPost', {postData, userId}, {delay, jobId})
NewBullJob(jobId, postData, userId, delay) ==
    [id |-> jobId, data |-> [postData |-> postData, userId |-> userId],
     delay |-> delay, timestamp |-> now, state |-> "delayed",
     readyAt |-> now + delay, attemptsMade |-> 0, processedOn |-> Unset]

Issue(jobId, postData, userId, scheduledTime) ==
    [jobId |-> jobId, userId |-> userId, scheduledTime |-> scheduledTime,
     content |-> postData.content]

\* the in-memory branch: a new entry under the next counter value and a
\* single-shot timer
ScheduleInMemory(postData, userId, scheduledTime) ==
    LET jobId == MemId(jobIdCounter)
        delay == scheduledTime - now
    IN  /\ jobIdCounter' = jobIdCounter + 1
        /\ inMemoryJobs' = inMemoryJobs @@
               (jobId :> NewJobData(jobId, postData, userId, scheduledTime))
        /\ timers' = timers @@ (jobId :> NewTimer(postData, userId, delay))
        /\ issued' = issued \cup {Issue(jobId, postData, userId, scheduledTime)}
        /\ UNCHANGED bullJobs

\* the Bull branch: add under the id composed of the owner and Date.now();
\* Bull keeps the existing job when the id is already taken
ScheduleWithBull(postData, userId, scheduledTime) ==
    LET jobId == BullId(userId, now)
        delay == scheduledTime - now
    IN  /\ bullJobs' = IF jobId \in DOMAIN bullJobs
                         THEN bullJobs
                         ELSE bullJobs @@
                              (jobId :> NewBullJob(jobId, postData, userId, delay))
        /\ issued' = issued \cup {Issue(jobId, postData, userId, scheduledTime)}
        /\ UNCHANGED <<inMemoryJobs, jobIdCounter, timers>>

\* the identifier the call will return
NewJobId(userId) == IF UseBull THEN BullId(userId, now) ELSE MemId(jobIdCounter)

\* the jobs issued so far stay within the bound; a call that repeats an
\* earlier one under the same identifier issues no further job
HasRoom(issue) ==
    \/ issue \in issued /\ issue.jobId \in DOMAIN bullJobs
    \/ Cardinality(issued) < MaxJobs

\* schedulePost once the delay has passed its check: the job is created on
\* the backend in use and the result is returned
ScheduleAccepted(postData, userId, scheduledTime, op) ==
    /\ IF UseBull
       THEN ScheduleWithBull(postData, userId, scheduledTime)
       ELSE ScheduleInMemory(postData, userId, scheduledTime)
    /\ response' = Result(SchedReq(op, postData.content, scheduledTime),
                         NewJobId(userId), "scheduled")

\* schedulePost(postData, userId, scheduledTime) of jobQueue.js; op is the
\* entry point that reports the outcome
schedulePost(postData, userId, scheduledTime, op) ==
    IF InvalidDelay(scheduledTime - now)
    THEN /\ response' = Resp(SchedReq(op, postData.content, scheduledTime),
                            Err(op), FutureMsg)
         /\ UNCHANGED <<inMemoryJobs, jobIdCounter, timers, bullJobs, issued>>
    ELSE /\ HasRoom(Issue(NewJobId(userId), postData, userId, scheduledTime))
         /\ ScheduleAccepted(postData, userId, scheduledTime, op)

\* a direct call of the facade
SchedulePost(userId, content, scheduledTime) ==
    /\ schedulePost([content |-> content], userId, scheduledTime, "facade")
    /\ UNCHANGED <<now, initDone, testQueue, isRedisAvailable, scheduledPostsQueue,
                   posts, failures, pending>>

\* a direct call of the facade with a future time in a process that takes
\* up to MaxAmong jobs
SchedulePostAmong(userId, content, scheduledTime) ==
    /\ ~InvalidDelay(scheduledTime - now)
    /\ Cardinality(issued) < MaxAmong
    /\ ScheduleAccepted([content |-> content], userId, scheduledTime, "facade")
    /\ UNCHANGED <<now, initDone, testQueue, isRedisAvailable, scheduledPostsQueue,
                   posts, failures, pending>>

\* a direct call of the facade whose postData names an author of its own
SchedulePostAs(userId, content, author, scheduledTime) ==
    /\ schedulePost([content |-> content, user_id |-> author], userId,
                    scheduledTime, "facade")
    /\ UNCHANGED <<now, initDone, testQueue, isRedisAvailable, scheduledPostsQueue,
                   posts, failures, pending>>

(* --------------------- the fallback's timer callback ------------------- *)
\* { user_id: userId, ...postData }: the fields of postData laid over the
\* owner
MergeOwnerFirst(postData, userId) ==
    [k \in DOMAIN postData \cup {"user_id"} |->
        IF k \in DOMAIN postData THEN postData[k] ELSE userId]

\* { ...postData, user_id: userId }: the owner laid over the fields of
\* postData
MergeOwner(postData, userId) ==
    [k \in DOMAIN postData \cup {"user_id"} |->
        IF k = "user_id" THEN userId ELSE postData[k]]

\* Post.createPost(row) inserts the row's user_id and content
CreatePostCall(jobId, postData, userId) ==
    LET row == MergeOwner(postData, userId)
    IN  [job |-> jobId, user_id |-> row.user_id, content |-> row.content,
         nth |-> Cardinality({p \in posts : p.job = jobId}) + 1]

\* a timer that fires only once the clock has passed its time
TimerFireLate(jobId) ==
    /\ jobId \in DOMAIN timers
    /\ timers[jobId].state = "armed"
    /\ now > timers[jobId].fireAt
    /\ posts' = posts \cup {CreatePostCall(jobId, timers[jobId].postData,
                                           timers[jobId].userId)}
    /\ timers' = [timers EXCEPT ![jobId].state = "running"]
    /\ UNCHANGED response
    /\ UNCHANGED <<now, initDone, testQueue, isRedisAvailable, scheduledPostsQueue,
                   inMemoryJobs, jobIdCounter, bullJobs, failures, issued,
                   pending>>

\* the timer fires: the callback runs up to `await Post.createPost(...)`
TimerFire(jobId) ==
    /\ jobId \in DOMAIN timers
    /\ timers[jobId].state = "armed"
    /\ now >= timers[jobId].fireAt
    /\ posts' = posts \cup {CreatePostCall(jobId, timers[jobId].postData,
                                           timers[jobId].userId)}
    /\ timers' = [timers EXCEPT ![jobId].state = "running"]
    /\ UNCHANGED response
    /\ UNCHANGED <<now, initDone, testQueue, isRedisAvailable, scheduledPostsQueue,
                   inMemoryJobs, jobIdCounter, bullJobs, failures, issued,
                   pending>>

\* Post.createPost answers: it resolves, or it rejects with an error
CreatePostAnswer(ok) ==
    IF ok THEN UNCHANGED failures
    ELSE /\ failures < MaxFailures
         /\ failures' = failures + 1

\* a removal that empties the map
MapClear(map, key) == <<>>

\* map.delete(key)
MapDelete(map, key) == [k \in DOMAIN map \ {key} |-> map[k]]

PublishErr == "database error"

\* a callback that deletes the entry whatever createPost has answered
CallbackDeleteAlways(jobId, ok) == MapDelete(inMemoryJobs, jobId)

\* the rest of the callback, once createPost has answered
CallbackAfterCreatePost(jobId, ok) ==
    IF ok
    THEN MapDelete(inMemoryJobs, jobId)
    ELSE IF jobId \in DOMAIN inMemoryJobs
         THEN [inMemoryJobs EXCEPT ![jobId].status = "failed",
                                   ![jobId].error = PublishErr]
         ELSE inMemoryJobs

\* a callback that arms the timer again when createPost has failed
TimerCallbackRetry(jobId, ok) ==
    /\ jobId \in DOMAIN timers
    /\ timers[jobId].state = "running"
    /\ inMemoryJobs' = CallbackAfterCreatePost(jobId, ok)
    /\ timers' = [timers EXCEPT ![jobId].state = IF ok THEN "done" ELSE "armed"]
    /\ CreatePostAnswer(ok)
    /\ UNCHANGED response
    /\ UNCHANGED <<now, initDone, testQueue, isRedisAvailable, scheduledPostsQueue,
                   jobIdCounter, bullJobs, posts, issued, pending>>

TimerCallbackDone(jobId, ok) ==
    /\ jobId \in DOMAIN timers
    /\ timers[jobId].state = "running"
    /\ inMemoryJobs' = CallbackAfterCreatePost(jobId, ok)
    /\ timers' = [timers EXCEPT ![jobId].state = "done"]
    /\ CreatePostAnswer(ok)
    /\ UNCHANGED response
    /\ UNCHANGED <<now, initDone, testQueue, isRedisAvailable, scheduledPostsQueue,
                   jobIdCounter, bullJobs, posts, issued, pending>>

(* ---------------------------- getScheduledPosts ------------------------ *)
\* the Bull branch: the jobs of the 'delayed' and 'waiting' sets
BullListed == {id \in DOMAIN bullJobs : bullJobs[id].state \in {"delayed", "waiting"}}

\* new Date(job.processedOn + job.opts.delay); processedOn is undefined
\* until a worker has picked the job up
BullScheduledTime(job) ==
    IF job.processedOn = Unset THEN InvalidDate ELSE job.processedOn + job.delay

BullView(job) ==
    [jobId |-> job.id, postData |-> job.data.postData,
     scheduledTime |-> BullScheduledTime(job),
     status |-> IF job.delay > 0 THEN "scheduled" ELSE "processing",
     createdAt |-> job.timestamp]

MemoryView(job) ==
    [jobId |-> job.id, postData |-> job.postData,
     scheduledTime |-> job.scheduledTime, status |-> job.status,
     createdAt |-> job.createdAt]

\* .filter(job => job.data.userId === userId) / .filter(job => job.userId === userId)
BullOwned(userId) == {id \in BullListed : bullJobs[id].data.userId = userId}
MemoryOwned(userId) == {id \in DOMAIN inMemoryJobs : inMemoryJobs[id].userId = userId}

\* a listing that leaves the owner filter out
getScheduledPostsAnyOwner(userId) ==
    IF UseBull
    THEN {BullView(bullJobs[id]) : id \in BullListed}
    ELSE {MemoryView(inMemoryJobs[id]) : id \in DOMAIN inMemoryJobs}

getScheduledPosts(userId) ==
    IF UseBull
    THEN {BullView(bullJobs[id]) : id \in BullOwned(userId)}
    ELSE {MemoryView(inMemoryJobs[id]) : id \in MemoryOwned(userId)}

(* ------------------------------ getQueueStats -------------------------- *)
BullCount(state) ==
    Cardinality({id \in DOMAIN bullJobs : bullJobs[id].state = state})

\* a count that leaves the status filter out
MemoryCountAll(status) == Cardinality(DOMAIN inMemoryJobs)

\* jobs.filter(job => job.status === status).length
MemoryCount(status) ==
    Cardinality({id \in DOMAIN inMemoryJobs : inMemoryJobs[id].status = status})

\* getQueueStats() of jobQueue.js
getQueueStats ==
    IF UseBull
    THEN [waiting |-> BullCount("waiting"), active |-> BullCount("active"),
          completed |-> BullCount("completed"), failed |-> BullCount("failed"),
          delayed |-> BullCount("delayed"),
          total |-> BullCount("waiting") + BullCount("active")
                    + BullCount("completed") + BullCount("failed")
                    + BullCount("delayed"),
          type |-> "redis"]
    ELSE [waiting |-> 0, active |-> 0, completed |-> 0,
          failed |-> MemoryCount("failed"), delayed |-> MemoryCount("scheduled"),
          total |-> Cardinality(DOMAIN inMemoryJobs), type |-> "in-memory"]

StatsReq ==
    [op |-> "facade", call |-> "stats", userId |-> NoUser,
     content |-> NoContent, time |-> NoTime, jobId |-> NoJob]

\* a direct call of getQueueStats(): the caller gets the record of the
\* counts
GetQueueStats ==
    /\ response' = Resp(StatsReq, Ok("facade"), getQueueStats.type)
    /\ UNCHANGED <<now, initDone, testQueue, isRedisAvailable, scheduledPostsQueue,
                   inMemoryJobs, jobIdCounter, timers, bullJobs, posts,
                   failures, issued, pending>>

(* --------------------------- cancelScheduledPost ----------------------- *)
NotFoundMsg == "Scheduled post not found"
NotOwnedMsg == "Scheduled post not found or does not belong to you"
LockedMsg == "Could not remove job"

\* isRedisAvailable && scheduledPostsQueue && !jobId.startsWith('memory-job-')
CancelUsesBull(jobId) == UseBull /\ ~IsMemId(jobId)

\* job.remove() of Bull: refused while a worker holds the job's lock
BullRemoveRefused(job) == job.state = "active"

\* cancelScheduledPost(jobId) of jobQueue.js
cancelScheduledPost(jobId, req) ==
    IF CancelUsesBull(jobId)
    THEN /\ UNCHANGED inMemoryJobs
         /\ IF jobId \notin DOMAIN bullJobs
            THEN /\ response' = Resp(req, Err(req.op), NotFoundMsg)
                 /\ UNCHANGED bullJobs
            ELSE IF BullRemoveRefused(bullJobs[jobId])
                 THEN /\ response' = Resp(req, Err(req.op), LockedMsg)
                      /\ UNCHANGED bullJobs
                 ELSE /\ bullJobs' = MapDelete(bullJobs, jobId)
                      /\ response' = Result(req, jobId, "cancelled")
    ELSE /\ UNCHANGED bullJobs
         /\ IF jobId \notin DOMAIN inMemoryJobs
            THEN /\ response' = Resp(req, Err(req.op), NotFoundMsg)
                 /\ UNCHANGED inMemoryJobs
            ELSE /\ inMemoryJobs' = MapDelete(inMemoryJobs, jobId)
                 /\ response' = Result(req, jobId, "cancelled")

\* the job identifiers a cancel request may name: every identifier issued
\* so far, and one of each backend's style that was never issued
NeverIssued == {MemId(jobIdCounter), BullId(1, 0)}
KnownIds == DOMAIN timers \cup DOMAIN bullJobs \cup {i.jobId : i \in issued}
CancelIds == KnownIds \cup NeverIssued

\* a direct call of the facade
CancelScheduledPost(jobId) ==
    /\ cancelScheduledPost(jobId, CancelReq("facade", NoUser, jobId))
    /\ UNCHANGED <<now, initDone, testQueue, isRedisAvailable, scheduledPostsQueue,
                   jobIdCounter, timers, posts, failures, issued, pending>>

(* ------------------- REST controller and GraphQL mutations ------------- *)
RequiredMsg == "Scheduled time is required"
HorizonMsg == "Cannot schedule posts more than 1 year in advance"
ValidationMsg == "Validation failed"

\* createPostSchema.validate({ content }): the content is required
ContentRejected(content) == content = NoContent

\* if (!scheduledTime)
TimeMissing(scheduledTime) == scheduledTime = NoTime

\* if (scheduledDate <= now)
NotInFuture(scheduledDate) == scheduledDate <= now

\* if (scheduledDate > maxScheduleTime)
BeyondHorizon(scheduledDate) == scheduledDate > now + OneYear

Reject(req, status, body) ==
    /\ response' = Resp(req, status, body)
    /\ UNCHANGED <<inMemoryJobs, jobIdCounter, timers, bullJobs, issued>>

\* scheduleNewPost of controllers/scheduled.js, POST /api/posts/schedule
ScheduleNewPost(userId, content, scheduledTime) ==
    /\ LET req == SchedReq("rest", content, scheduledTime)
       IN  IF ContentRejected(content) THEN Reject(req, "400", ValidationMsg)
           ELSE IF TimeMissing(scheduledTime) THEN Reject(req, "400", RequiredMsg)
           ELSE IF NotInFuture(scheduledTime) THEN Reject(req, "400", FutureMsg)
           ELSE IF BeyondHorizon(scheduledTime) THEN Reject(req, "400", HorizonMsg)
           ELSE schedulePost([content |-> content], userId, scheduledTime, "rest")
    /\ UNCHANGED <<now, initDone, testQueue, isRedisAvailable, scheduledPostsQueue,
                   posts, failures, pending>>

\* a schedule request between the controller's reading of the clock and the
\* facade's
ScheduleCall(userId, content, scheduledTime) ==
    [op |-> "rest", call |-> "schedule", userId |-> userId,
     content |-> content, time |-> scheduledTime, jobId |-> NoJob]

\* scheduleNewPost up to its call of schedulePost: the validation against
\* the controller's `now = new Date()`
ScheduleNewPostCheck(userId, content, scheduledTime) ==
    /\ LET req == SchedReq("rest", content, scheduledTime)
       IN  IF ContentRejected(content)
           THEN Reject(req, "400", ValidationMsg) /\ UNCHANGED pending
           ELSE IF TimeMissing(scheduledTime)
           THEN Reject(req, "400", RequiredMsg) /\ UNCHANGED pending
           ELSE IF NotInFuture(scheduledTime)
           THEN Reject(req, "400", FutureMsg) /\ UNCHANGED pending
           ELSE IF BeyondHorizon(scheduledTime)
           THEN Reject(req, "400", HorizonMsg) /\ UNCHANGED pending
           ELSE /\ Cardinality(pending) < MaxPending
                /\ pending' = pending \cup
                                  {ScheduleCall(userId, content, scheduledTime)}
                /\ UNCHANGED response
                /\ UNCHANGED <<inMemoryJobs, jobIdCounter, timers, bullJobs,
                               issued>>
    /\ UNCHANGED <<now, initDone, testQueue, isRedisAvailable, scheduledPostsQueue,
                   posts, failures>>

\* the rest of scheduleNewPost: schedulePost reads the clock for itself, and
\* the controller answers with its result or, in its catch, with status 500
ScheduleNewPostCall(p) ==
    /\ p \in pending
    /\ p.call = "schedule"
    /\ pending' = pending \ {p}
    /\ schedulePost([content |-> p.content], p.userId, p.time, "rest")
    /\ UNCHANGED <<now, initDone, testQueue, isRedisAvailable, scheduledPostsQueue,
                   posts, failures>>

\* Mutation.schedulePost of graphql/resolvers.js
GqlSchedulePost(userId, content, scheduledTime) ==
    /\ IF NotInFuture(scheduledTime)
       THEN Reject(SchedReq("graphql", content, scheduledTime),
                   "errors", FutureMsg)
       ELSE schedulePost([content |-> content], userId, scheduledTime, "graphql")
    /\ UNCHANGED <<now, initDone, testQueue, isRedisAvailable, scheduledPostsQueue,
                   posts, failures, pending>>

\* an ownership check that looks the job up in every owner's list
FindAnyJob(userId, jobId) ==
    {j \in UNION {getScheduledPosts(u) : u \in Users} : j.jobId = jobId}

\* userScheduledPosts.find(job => job.jobId === jobId)
FindUserJob(userId, jobId) == {j \in getScheduledPosts(userId) : j.jobId = jobId}

\* a cancel path that goes on to cancel without an ownership check
CancelRequestUnchecked(op, userId, jobId) ==
    /\ cancelScheduledPost(jobId, CancelReq(op, userId, jobId))
    /\ UNCHANGED pending
    /\ UNCHANGED <<now, initDone, testQueue, isRedisAvailable, scheduledPostsQueue,
                   jobIdCounter, timers, posts, failures, issued>>

\* the ownership check of both cancel paths; with Bull the handler is
\* suspended on the queue's answer before it goes on to cancel, without
\* Bull `await getScheduledPosts` resumes before any other callback runs
CancelRequest(op, userId, jobId) ==
    /\ IF FindUserJob(userId, jobId) = {}
       THEN /\ response' = Resp(CancelReq(op, userId, jobId),
                                IF op = "rest" THEN "404" ELSE "errors",
                                NotOwnedMsg)
            /\ UNCHANGED <<inMemoryJobs, bullJobs, pending>>
       ELSE IF UseBull
            THEN /\ Cardinality(pending) < MaxPending
                 /\ pending' = pending \cup {CancelReq(op, userId, jobId)}
                 /\ UNCHANGED response
                 /\ UNCHANGED <<inMemoryJobs, bullJobs>>
            ELSE /\ cancelScheduledPost(jobId, CancelReq(op, userId, jobId))
                 /\ UNCHANGED pending
    /\ UNCHANGED <<now, initDone, testQueue, isRedisAvailable, scheduledPostsQueue,
                   jobIdCounter, timers, posts, failures, issued>>

\* cancelScheduledPostById of controllers/scheduled.js,
\* DELETE /api/posts/scheduled/:jobId
CancelScheduledPostById(userId, jobId) ==
    CancelRequest("rest", userId, jobId)

\* Mutation.cancelScheduledPost of graphql/resolvers.js
GqlCancelScheduledPost(userId, jobId) ==
    CancelRequest("graphql", userId, jobId)

\* a suspended cancel request goes on to `await cancelScheduledPost(jobId)`
CancelResume(p) ==
    /\ p \in pending
    /\ pending' = pending \ {p}
    /\ cancelScheduledPost(p.jobId, p)
    /\ UNCHANGED <<now, initDone, testQueue, isRedisAvailable, scheduledPostsQueue,
                   jobIdCounter, timers, posts, failures, issued>>

(* ------------------------- the Bull queue's worker --------------------- *)
\* a delayed job whose delay has elapsed moves to the waiting list
BullPromote(jobId) ==
    /\ jobId \in DOMAIN bullJobs
    /\ bullJobs[jobId].state = "delayed"
    /\ now >= bullJobs[jobId].readyAt
    /\ bullJobs' = [bullJobs EXCEPT ![jobId].state = "waiting"]
    /\ UNCHANGED response
    /\ UNCHANGED <<now, initDone, testQueue, isRedisAvailable, scheduledPostsQueue,
                   inMemoryJobs, jobIdCounter, timers, posts, failures, issued,
                   pending>>

\* the worker (concurrency 1) takes a waiting job and runs the processor up
\* to `await Post.createPost(...)`
BullProcess(jobId) ==
    /\ scheduledPostsQueue
    /\ jobId \in DOMAIN bullJobs
    /\ bullJobs[jobId].state = "waiting"
    /\ \A other \in DOMAIN bullJobs : bullJobs[other].state # "active"
    /\ bullJobs' = [bullJobs EXCEPT ![jobId].state = "active",
                                    ![jobId].processedOn = now]
    /\ posts' = posts \cup {CreatePostCall(jobId, bullJobs[jobId].data.postData,
                                           bullJobs[jobId].data.userId)}
    /\ UNCHANGED response
    /\ UNCHANGED <<now, initDone, testQueue, isRedisAvailable, scheduledPostsQueue,
                   inMemoryJobs, jobIdCounter, timers, failures, issued,
                   pending>>

\* backoff { type: 'exponential', delay: 2000 }
Backoff(attemptsMade) == (2 ^ attemptsMade - 1) * backoffDelay

\* a queue that retries a job after every failed attempt, whatever their
\* number
BullRetryAlways(job, ok) ==
    IF ok
    THEN [job EXCEPT !.state = "completed"]
    ELSE [job EXCEPT !.state = "delayed",
                     !.attemptsMade = job.attemptsMade + 1,
                     !.readyAt = now + Backoff(job.attemptsMade + 1)]

\* the processor returns or re-throws; Bull completes the job, retries it
\* after the backoff, or fails it once the attempts are used up
BullAfterProcess(job, ok) ==
    IF ok
    THEN [job EXCEPT !.state = "completed"]
    ELSE IF job.attemptsMade + 1 < attempts
         THEN [job EXCEPT !.state = "delayed",
                          !.attemptsMade = job.attemptsMade + 1,
                          !.readyAt = now + Backoff(job.attemptsMade + 1)]
         ELSE [job EXCEPT !.state = "failed",
                          !.attemptsMade = job.attemptsMade + 1]

BullProcessDone(jobId, ok) ==
    /\ jobId \in DOMAIN bullJobs
    /\ bullJobs[jobId].state = "active"
    /\ bullJobs' = [bullJobs EXCEPT ![jobId] = BullAfterProcess(bullJobs[jobId], ok)]
    /\ CreatePostAnswer(ok)
    /\ UNCHANGED response
    /\ UNCHANGED <<now, initDone, testQueue, isRedisAvailable, scheduledPostsQueue,
                   inMemoryJobs, jobIdCounter, timers, posts, issued, pending>>

(* ------------------------------ the answer ----------------------------- *)
\* res.status(...).json(...), the return or the throw: the caller has the
\* answer
Deliver ==
    /\ ~Idle
    /\ response' = NoResponse
    /\ UNCHANGED <<now, initDone, testQueue, isRedisAvailable, scheduledPostsQueue,
                   inMemoryJobs, jobIdCounter, timers, bullJobs, posts,
                   failures, issued, pending>>

(* -------------------------------- the clock ---------------------------- *)
\* the clock moves on to a time a request may name or at which a timer or a
\* delayed job becomes due
TickTargets(T) ==
    T \cup {timers[id].fireAt : id \in DOMAIN timers}
      \cup {bullJobs[id].readyAt : id \in DOMAIN bullJobs}

Tick(t) ==
    /\ t > now
    /\ now' = t
    /\ UNCHANGED response
    /\ UNCHANGED <<initDone, testQueue, isRedisAvailable, scheduledPostsQueue,
                   inMemoryJobs, jobIdCounter, timers, bullJobs, posts,
                   failures, issued, pending>>

(* ----------------------------- specifications -------------------------- *)
\* the process from module load on, requests naming near times; it takes a
\* step when the answer of the step before has been handed over
Next ==
    \/ Idle /\ \E ok \in BOOLEAN : InitializeQueue(ok)
    \/ Idle /\ \E u \in Users, c \in Contents, st \in Times : SchedulePost(u, c, st)
    \/ Idle /\ \E u \in Users, c \in Contents \cup {NoContent}, st \in Times \cup {NoTime} :
            ScheduleNewPost(u, c, st)
    \/ Idle /\ \E u \in Users, c \in Contents, st \in Times : GqlSchedulePost(u, c, st)
    \/ Idle /\ \E id \in CancelIds : CancelScheduledPost(id)
    \/ Idle /\ \E u \in Users, id \in CancelIds : CancelScheduledPostById(u, id)
    \/ Idle /\ \E u \in Users, id \in CancelIds : GqlCancelScheduledPost(u, id)
    \/ Idle /\ \E p \in pending : CancelResume(p)
    \/ Idle /\ \E id \in DOMAIN timers : TimerFire(id)
    \/ Idle /\ \E id \in DOMAIN timers, ok \in BOOLEAN : TimerCallbackDone(id, ok)
    \/ Idle /\ \E id \in DOMAIN bullJobs : BullPromote(id)
    \/ Idle /\ \E id \in DOMAIN bullJobs : BullProcess(id)
    \/ Idle /\ \E id \in DOMAIN bullJobs, ok \in BOOLEAN : BullProcessDone(id, ok)
    \/ Idle /\ \E t \in TickTargets(Times) : Tick(t)
    \/ Deliver

Spec == Init /\ [][Next]_vars

\* the same process, requests also naming times around the longest timer
\* duration and around the one-year horizon
NextHorizon ==
    \/ Idle /\ \E ok \in BOOLEAN : InitializeQueue(ok)
    \/ Idle /\ \E u \in Users, c \in Contents, st \in FarTimes : SchedulePost(u, c, st)
    \/ Idle /\ \E u \in Users, c \in Contents \cup {NoContent}, st \in FarTimes \cup {NoTime} :
            ScheduleNewPost(u, c, st)
    \/ Idle /\ \E u \in Users, c \in Contents, st \in FarTimes : GqlSchedulePost(u, c, st)
    \/ Idle /\ \E id \in CancelIds : CancelScheduledPost(id)
    \/ Idle /\ \E u \in Users, id \in CancelIds : CancelScheduledPostById(u, id)
    \/ Idle /\ \E u \in Users, id \in CancelIds : GqlCancelScheduledPost(u, id)
    \/ Idle /\ \E p \in pending : CancelResume(p)
    \/ Idle /\ \E id \in DOMAIN timers : TimerFire(id)
    \/ Idle /\ \E id \in DOMAIN timers, ok \in BOOLEAN : TimerCallbackDone(id, ok)
    \/ Idle /\ \E id \in DOMAIN bullJobs : BullPromote(id)
    \/ Idle /\ \E id \in DOMAIN bullJobs : BullProcess(id)
    \/ Idle /\ \E id \in DOMAIN bullJobs, ok \in BOOLEAN : BullProcessDone(id, ok)
    \/ Idle /\ \E t \in TickTargets(FarTimes) : Tick(t)
    \/ Deliver

SpecHorizon == Init /\ [][NextHorizon]_vars

\* the process on a host where the startup probe finds no Redis
NextFallback ==
    \/ Idle /\ InitializeQueue(FALSE)
    \/ Idle /\ \E u \in Users, c \in Contents, st \in Times : SchedulePost(u, c, st)
    \/ Idle /\ \E u \in Users, c \in Contents \cup {NoContent}, st \in Times \cup {NoTime} :
            ScheduleNewPost(u, c, st)
    \/ Idle /\ \E u \in Users, c \in Contents, st \in Times : GqlSchedulePost(u, c, st)
    \/ Idle /\ \E id \in CancelIds : CancelScheduledPost(id)
    \/ Idle /\ \E u \in Users, id \in CancelIds : CancelScheduledPostById(u, id)
    \/ Idle /\ \E u \in Users, id \in CancelIds : GqlCancelScheduledPost(u, id)
    \/ Idle /\ \E id \in DOMAIN timers : TimerFire(id)
    \/ Idle /\ \E id \in DOMAIN timers, ok \in BOOLEAN : TimerCallbackDone(id, ok)
    \/ Idle /\ \E t \in TickTargets(Times) : Tick(t)
    \/ Deliver

SpecFallback == Init /\ [][NextFallback]_vars

\* the process, with or without Redis, while Post.createPost resolves on
\* every invocation
NextHealthy ==
    \/ Idle /\ \E ok \in BOOLEAN : InitializeQueue(ok)
    \/ Idle /\ \E u \in Users, c \in Contents, st \in Times : SchedulePost(u, c, st)
    \/ Idle /\ \E u \in Users, c \in Contents \cup {NoContent}, st \in Times \cup {NoTime} :
            ScheduleNewPost(u, c, st)
    \/ Idle /\ \E u \in Users, c \in Contents, st \in Times : GqlSchedulePost(u, c, st)
    \/ Idle /\ \E id \in CancelIds : CancelScheduledPost(id)
    \/ Idle /\ \E u \in Users, id \in CancelIds : CancelScheduledPostById(u, id)
    \/ Idle /\ \E u \in Users, id \in CancelIds : GqlCancelScheduledPost(u, id)
    \/ Idle /\ \E p \in pending : CancelResume(p)
    \/ Idle /\ \E id \in DOMAIN timers : TimerFire(id)
    \/ Idle /\ \E id \in DOMAIN timers : TimerCallbackDone(id, TRUE)
    \/ Idle /\ \E id \in DOMAIN bullJobs : BullPromote(id)
    \/ Idle /\ \E id \in DOMAIN bullJobs : BullProcess(id)
    \/ Idle /\ \E id \in DOMAIN bullJobs : BullProcessDone(id, TRUE)
    \/ Idle /\ \E t \in TickTargets(Times) : Tick(t)
    \/ Deliver

SpecHealthy == Init /\ [][NextHealthy]_vars

\* the scheduler called directly, with or without Redis, while
\* Post.createPost resolves or rejects
NextWorker ==
    \/ Idle /\ \E ok \in BOOLEAN : InitializeQueue(ok)
    \/ Idle /\ GetQueueStats
    \/ Idle /\ \E u \in Users, c \in Contents, st \in Times : SchedulePost(u, c, st)
    \/ Idle /\ \E id \in CancelIds : CancelScheduledPost(id)
    \/ Idle /\ \E id \in DOMAIN timers : TimerFire(id)
    \/ Idle /\ \E id \in DOMAIN timers, ok \in BOOLEAN : TimerCallbackDone(id, ok)
    \/ Idle /\ \E id \in DOMAIN bullJobs : BullPromote(id)
    \/ Idle /\ \E id \in DOMAIN bullJobs : BullProcess(id)
    \/ Idle /\ \E id \in DOMAIN bullJobs, ok \in BOOLEAN : BullProcessDone(id, ok)
    \/ Idle /\ \E t \in TickTargets(Times) : Tick(t)
    \/ Deliver

SpecWorker == Init /\ [][NextWorker]_vars

\* the user after userId, the first after the last
OtherUser(userId) == (userId % MaxUser) + 1

\* the scheduler called directly with a postData that names another user as
\* its author, with or without Redis, while Post.createPost resolves on
\* every invocation
NextAuthor ==
    \/ Idle /\ \E ok \in BOOLEAN : InitializeQueue(ok)
    \/ Idle /\ \E u \in Users, c \in AuthorContents, st \in Times :
            SchedulePostAs(u, c, OtherUser(u), st)
    \/ Idle /\ \E id \in DOMAIN timers : TimerFire(id)
    \/ Idle /\ \E id \in DOMAIN timers : TimerCallbackDone(id, TRUE)
    \/ Idle /\ \E id \in DOMAIN bullJobs : BullPromote(id)
    \/ Idle /\ \E id \in DOMAIN bullJobs : BullProcess(id)
    \/ Idle /\ \E id \in DOMAIN bullJobs : BullProcessDone(id, TRUE)
    \/ Idle /\ \E t \in TickTargets(Times) : Tick(t)
    \/ Deliver

SpecAuthor == Init /\ [][NextAuthor]_vars

\* the scheduler called directly on a host whose process is started again
\* and again, while Post.createPost resolves on every invocation
NextRestart ==
    \/ Idle /\ \E ok \in BOOLEAN : InitializeQueue(ok)
    \/ Idle /\ Restart
    \/ Idle /\ \E u \in Users, c \in Contents, st \in Times : SchedulePost(u, c, st)
    \/ Idle /\ \E id \in DOMAIN timers : TimerFire(id)
    \/ Idle /\ \E id \in DOMAIN timers : TimerCallbackDone(id, TRUE)
    \/ Idle /\ \E id \in DOMAIN bullJobs : BullPromote(id)
    \/ Idle /\ \E id \in DOMAIN bullJobs : BullProcess(id)
    \/ Idle /\ \E id \in DOMAIN bullJobs : BullProcessDone(id, TRUE)
    \/ Idle /\ \E t \in TickTargets(Times) : Tick(t)
    \/ Deliver

SpecRestart == Init /\ [][NextRestart]_vars

\* the scheduler called directly on a host without Redis, holding several
\* jobs at a time
NextAmong ==
    \/ Idle /\ InitializeQueue(FALSE)
    \/ Idle /\ \E u \in Users, c \in Contents, st \in Times : SchedulePostAmong(u, c, st)
    \/ Idle /\ \E id \in CancelIds : CancelScheduledPost(id)
    \/ Idle /\ \E id \in DOMAIN timers : TimerFire(id)
    \/ Idle /\ \E id \in DOMAIN timers, ok \in BOOLEAN : TimerCallbackDone(id, ok)
    \/ Idle /\ \E t \in TickTargets(Times) : Tick(t)
    \/ Deliver

SpecAmong == Init /\ [][NextAmong]_vars

\* the scheduler called directly on a host without Redis
NextProgress ==
    \/ Idle /\ InitializeQueue(FALSE)
    \/ Idle /\ \E u \in Users, c \in Contents, st \in Times : SchedulePost(u, c, st)
    \/ Idle /\ \E id \in CancelIds : CancelScheduledPost(id)
    \/ Idle /\ \E id \in DOMAIN timers : TimerFire(id)
    \/ Idle /\ \E id \in DOMAIN timers, ok \in BOOLEAN : TimerCallbackDone(id, ok)
    \/ Idle /\ \E t \in TickTargets(Times) : Tick(t)
    \/ Deliver

\* the identifiers the fallback can issue within the bound
MemoryIds == {MemId(n) : n \in 1..MaxJobs}

\* time passes, the event loop runs every timer that is due, Post.createPost
\* answers every invocation and every answer reaches its caller, however
\* many requests arrive in between
Progress ==
    /\ SF_vars(Idle /\ \E t \in TickTargets(Times) : Tick(t))
    /\ \A id \in MemoryIds : SF_vars(Idle /\ TimerFire(id))
    /\ \A id \in MemoryIds :
          SF_vars(Idle /\ \E ok \in BOOLEAN : TimerCallbackDone(id, ok))
    /\ WF_vars(Deliver)

SpecProgress == Init /\ [][NextProgress]_vars /\ Progress

\* the process with the REST schedule endpoint, the clock moving on between
\* the controller's reading and the facade's; nothing else runs while a
\* request is between the two
NextClock ==
    \/ Idle /\ pending = {} /\ \E ok \in BOOLEAN : InitializeQueue(ok)
    \/ Idle /\ pending = {} /\
          \E u \in Users, c \in Contents \cup {NoContent}, st \in Times \cup {NoTime} :
             ScheduleNewPostCheck(u, c, st)
    \/ Idle /\ \E p \in pending : ScheduleNewPostCall(p)
    \/ Idle /\ pending = {} /\ \E id \in DOMAIN timers : TimerFire(id)
    \/ Idle /\ pending = {} /\ \E id \in DOMAIN timers : TimerCallbackDone(id, TRUE)
    \/ Idle /\ pending = {} /\ \E id \in DOMAIN bullJobs : BullPromote(id)
    \/ Idle /\ pending = {} /\ \E id \in DOMAIN bullJobs : BullProcess(id)
    \/ Idle /\ pending = {} /\ \E id \in DOMAIN bullJobs : BullProcessDone(id, TRUE)
    \/ Idle /\ \E t \in TickTargets(Times) : Tick(t)
    \/ Deliver

SpecClock == Init /\ [][NextClock]_vars

(* --------------------------------- claims ------------------------------ *)
\* the invocations of Post.createPost made for a job
Calls(jobId) == {p \in posts : p.job = jobId}

\* the job identifiers listForOwner returns
ListedIds(userId) == {j.jobId : j \in getScheduledPosts(userId)}

\* a fallback job that cancel has removed while its timer had not fired
CancelledBeforeFire(jobId) ==
    /\ jobId \in DOMAIN timers
    /\ timers[jobId].state = "armed"
    /\ jobId \notin DOMAIN inMemoryJobs

\* C1: on the fallback, once cancel has succeeded for a job whose timer has
\* not fired, the job is in no later listForOwner result and createPost is
\* never invoked for it, also not when its timer fires.
C1_CancelledNeverPublished ==
    [][\A id \in DOMAIN timers :
          CancelledBeforeFire(id) =>
             /\ Calls(id)' = {}
             /\ \A u \in Users : id \notin ListedIds(u)']_vars

\* C2: on the fallback createPost is invoked exactly once for a job: not
\* before the timer fires, once when it fires, and never a second time,
\* whether the invocation succeeded or failed.
C2_ExactlyOnce ==
    \A id \in DOMAIN timers :
       Cardinality(Calls(id)) = IF timers[id].state = "armed" THEN 0 ELSE 1

\* a job whose single publish attempt has failed and was not repeated
C2_Witness ==
    \E id \in DOMAIN inMemoryJobs :
       /\ timers[id].state = "done"
       /\ inMemoryJobs[id].status = "failed"
       /\ Cardinality(Calls(id)) = 1

\* C3: on the fallback createPost is never invoked for a job before the
\* job's scheduledTime, for every delay schedule accepts, the delays above
\* the longest timer duration included.
C3_NotBeforeScheduledTime ==
    \A i \in issued :
       (IsMemId(i.jobId) /\ Calls(i.jobId) # {}) => now >= i.scheduledTime

\* the step answers a schedule request of any entry point that names valid
\* content and the time st
SchedulesAt(st) ==
    /\ response'.req.call = "schedule"
    /\ response'.req.content \in Contents
    /\ response'.req.time = st

\* C4: a schedule request naming a scheduledTime <= now is rejected with
\* 'Scheduled time must be in the future' (the facade throws it, REST
\* answers 400, GraphQL reports the error) and nothing of the scheduler
\* changes: no map entry, no counter step, no Bull job, no timer, no result.
C4_PastTimeRejected ==
    [][\A st \in FarTimes :
          (st <= now /\ SchedulesAt(st)) =>
             /\ response'.body = FutureMsg
             /\ response'.status \in {"threw", "400", "errors"}
             /\ UNCHANGED schedulerState]_vars

\* REST has answered 400 with the message to a request naming valid content
\* and a time that is not in the future
C4_Witness ==
    /\ response.req.op = "rest"
    /\ response.req.call = "schedule"
    /\ response.req.content \in Contents
    /\ response.req.time # NoTime
    /\ response.req.time <= now
    /\ response.status = "400"
    /\ response.body = FutureMsg

\* C5: a schedule request naming a scheduledTime > now + 1 year is rejected
\* and creates no job, through the REST controller, the GraphQL mutation
\* and a direct call of the facade alike.
C5_BeyondHorizonRejected ==
    [][\A st \in FarTimes :
          (st > now + OneYear /\ SchedulesAt(st)) =>
             /\ response'.status \in {"threw", "400", "errors"}
             /\ UNCHANGED schedulerState]_vars

\* C6: every job listForOwner returns for an owner was scheduled by that
\* owner, on either backend.
C6_ListOnlyOwnJobs ==
    \A u \in Users : \A id \in ListedIds(u) : \A i \in issued :
       i.jobId = id => i.userId = u

\* one owner's job is listed for that owner while the other owner's list
\* is empty
C6_Witness ==
    \E u \in Users, v \in Users :
       /\ u # v
       /\ ListedIds(u) # {}
       /\ ListedIds(v) = {}

\* the step answers a cancel request that the caller u has sent through the
\* REST controller or the GraphQL mutation for the job id
CancelVia(u, id) ==
    /\ response'.req.call = "cancel"
    /\ response'.req.op \in {"rest", "graphql"}
    /\ response'.req.userId = u
    /\ response'.req.jobId = id

\* C7: a cancel request by a caller who is not the job's owner is rejected
\* and leaves the job untouched: its record, its listing and its timer or
\* queue entry stay as they are.
C7_ForeignCancelRejected ==
    [][\A u \in Users, i \in issued :
          (i.userId # u /\ CancelVia(u, i.jobId)) =>
             /\ response'.body = NotOwnedMsg
             /\ response'.status \in {"404", "errors"}
             /\ UNCHANGED <<schedulerState, pending>>]_vars

\* REST has answered 404 to a caller naming another owner's job, which is
\* still listed for its owner
C7_Witness ==
    \E i \in issued :
       /\ response.req.op = "rest"
       /\ response.req.call = "cancel"
       /\ response.req.jobId = i.jobId
       /\ response.req.userId # i.userId
       /\ response.status = "404"
       /\ i.jobId \in ListedIds(i.userId)

\* the due-time execution of a job has started and has not finished
InFlight(jobId) ==
    \/ jobId \in DOMAIN timers /\ timers[jobId].state = "running"
    \/ jobId \in DOMAIN bullJobs /\ bullJobs[jobId].state = "active"

\* the step answers a direct call of the facade's cancel for the job id
CancelCall(id) ==
    /\ response'.req.call = "cancel"
    /\ response'.req.op = "facade"
    /\ response'.req.jobId = id

\* C8: a cancel call for a job whose due-time execution has started and not
\* finished fails; it does not return status 'cancelled'.
C8_NoCancelWhileProcessing ==
    [][\A id \in KnownIds :
          (InFlight(id) /\ CancelCall(id)) =>
             response'.status = "threw"]_vars

\* the job has fired: its map entry is absent (fallback), it has moved past
\* delayed/waiting or does not exist (durable)
Fired(jobId) ==
    IF CancelUsesBull(jobId)
    THEN jobId \notin BullListed
    ELSE jobId \notin DOMAIN inMemoryJobs

\* C9: cancel of a job that has already fired, of an identifier that was
\* never issued or of a job that was already cancelled throws
\* 'Scheduled post not found' and changes nothing.
C9_CancelAfterFireNotFound ==
    [][\A id \in CancelIds :
          (Fired(id) /\ CancelCall(id)) =>
             /\ response'.status = "threw"
             /\ response'.body = NotFoundMsg
             /\ UNCHANGED schedulerState]_vars

\* the job was scheduled, has not fired and was not cancelled
StillScheduled(jobId) ==
    IF IsMemId(jobId)
    THEN /\ jobId \in DOMAIN inMemoryJobs
         /\ timers[jobId].state = "armed"
    ELSE /\ jobId \in DOMAIN bullJobs
         /\ bullJobs[jobId].state \in {"delayed", "waiting"}
         /\ bullJobs[jobId].attemptsMade = 0

\* C10: from the successful return of schedule until the job fires or is
\* cancelled, listForOwner of the owner contains the job with status
\* 'scheduled', whichever backend is active and also when schedule ran
\* before the startup probe had completed.
C10_ListedWhileScheduled ==
    \A i \in issued :
       StillScheduled(i.jobId) =>
          \E j \in getScheduledPosts(i.userId) :
             j.jobId = i.jobId /\ j.status = "scheduled"

\* the step answers the REST cancel request of the caller u for the job id
RestCancel(u, id) ==
    /\ response'.req.call = "cancel"
    /\ response'.req.op = "rest"
    /\ response'.req.userId = u
    /\ response'.req.jobId = id

\* C11: the REST cancel request of the owner for a job that is scheduled,
\* has not fired and was not cancelled is answered 200 with status
\* 'cancelled', whichever backend holds the job and whenever the startup
\* probe has completed.
C11_OwnerCancelSucceeds ==
    [][\A i \in issued :
          (StillScheduled(i.jobId) /\ RestCancel(i.userId, i.jobId)) =>
             /\ response'.status = "20x"
             /\ response'.body = "cancelled"]_vars

\* initializeQueue has finished and its probe has found no Redis
ProbeFailed == initDone /\ ~isRedisAvailable

\* C12: once the startup probe has failed, every schedule call with a
\* future time succeeds and returns a 'memory-job-<n>' identifier, no step
\* touches the durable queue, and stats() reports the in-memory type.
C12_ProbeFailedFallbackOnly ==
    [][ProbeFailed =>
          /\ bullJobs' = bullJobs
          /\ scheduledPostsQueue' = FALSE
          /\ getQueueStats.type = "in-memory"
          /\ getQueueStats'.type = "in-memory"
          /\ \A st \in Times :
                (st > now /\ SchedulesAt(st)) =>
                   /\ response'.status \in {"returned", "20x", "data"}
                   /\ response'.body = "scheduled"
                   /\ IsMemId(response'.jobId)]_vars

\* after the failed probe a schedule request has been answered with a
\* fallback identifier
C12_Witness ==
    /\ ProbeFailed
    /\ response.req.call = "schedule"
    /\ response.body = "scheduled"
    /\ IsMemId(response.jobId)
    /\ getQueueStats.type = "in-memory"

\* C13: the mode flag isRedisAvailable changes at most once, in the step
\* that finishes initializeQueue and from false to the probe's true; once
\* initializeQueue has finished neither the flag nor the queue object
\* changes again, whatever is called later and whatever the backend answers.
C13_BackendSelectedOnce ==
    [][/\ isRedisAvailable' # isRedisAvailable =>
             /\ ~initDone /\ initDone'
             /\ ~isRedisAvailable /\ isRedisAvailable'
       /\ initDone =>
             /\ initDone'
             /\ isRedisAvailable' = isRedisAvailable
             /\ scheduledPostsQueue' = scheduledPostsQueue]_vars

\* the durable mode still stands after a cancel call that the queue has
\* refused with an error
C13_Witness ==
    /\ initDone
    /\ isRedisAvailable
    /\ response.req.call = "cancel"
    /\ response.body = LockedMsg

\* the step answers a cancel request of any entry point for the job id with
\* status 'cancelled'
Cancelled(id) ==
    /\ response'.req.call = "cancel"
    /\ response'.req.jobId = id
    /\ response'.body = "cancelled"

\* C14: a job's status moves scheduled -> processing -> completed|failed or
\* scheduled -> cancelled and the last three are terminal, so cancel
\* succeeds only on a job whose status is 'scheduled': no job that is being
\* processed, has completed, has failed or was cancelled becomes 'cancelled'.
C14_CancelOnlyWhenScheduled ==
    [][\A id \in KnownIds : Cancelled(id) => StillScheduled(id)]_vars


\* the timer callback of the job ends in this step
CallbackEnds(id) == timers[id].state = "running" /\ timers'[id].state = "done"

\* C15: on the fallback, when the callback of a fired timer ends after
\* createPost has succeeded the job's entry is no longer in the in-memory
\* map; when createPost has failed the entry (unless a cancel has removed it
\* meanwhile) is kept with status 'failed' and the failure's message as its
\* error, and a failed entry stays in the map unchanged until a cancel is
\* answered for it.
C15_FailedEntryKept ==
    [][/\ \A id \in DOMAIN timers :
             CallbackEnds(id) =>
                IF failures' = failures
                THEN id \notin DOMAIN inMemoryJobs'
                ELSE IF id \in DOMAIN inMemoryJobs
                     THEN /\ id \in DOMAIN inMemoryJobs'
                          /\ inMemoryJobs'[id].status = "failed"
                          /\ inMemoryJobs'[id].error = PublishErr
                     ELSE id \notin DOMAIN inMemoryJobs'
       /\ \A id \in DOMAIN inMemoryJobs :
             inMemoryJobs[id].status = "failed" =>
                \/ Cancelled(id)
                \/ /\ id \in DOMAIN inMemoryJobs'
                   /\ inMemoryJobs'[id] = inMemoryJobs[id]]_vars

\* a failed entry that carries the failure's message is still in the map
\* once its due time has come
C15_Witness ==
    \E id \in DOMAIN inMemoryJobs :
       /\ inMemoryJobs[id].status = "failed"
       /\ inMemoryJobs[id].error = PublishErr
       /\ failures > 0
       /\ now >= inMemoryJobs[id].scheduledTime


\* the error message an element of a listing shows, if it has one
ViewError(view) == IF "error" \in DOMAIN view THEN view.error ELSE NoError

\* C16: on the fallback, once a job's publish has failed, the listing of the
\* job's owner contains the job with status 'failed' and with the error
\* message stored on its entry.
C16_ListingShowsError ==
    \A id \in DOMAIN inMemoryJobs :
       (ProbeFailed /\ inMemoryJobs[id].status = "failed") =>
          \E view \in getScheduledPosts(inMemoryJobs[id].userId) :
             /\ view.jobId = id
             /\ view.status = "failed"
             /\ ViewError(view) = inMemoryJobs[id].error


\* the due-time execution of the job has finished: the timer callback has
\* ended (fallback), the job is completed or failed (durable)
Executed(jobId) ==
    IF IsMemId(jobId)
    THEN jobId \in DOMAIN timers /\ timers[jobId].state = "done"
    ELSE jobId \in DOMAIN bullJobs /\ bullJobs[jobId].state \in {"completed", "failed"}

\* the job was issued and a cancel has removed it
CancelledJob(jobId) ==
    IF IsMemId(jobId)
    THEN jobId \in DOMAIN timers /\ jobId \notin DOMAIN inMemoryJobs
                                 /\ timers[jobId].state = "armed"
    ELSE jobId \notin DOMAIN bullJobs

\* C17: the listing of an owner contains only jobs that were not executed
\* yet: no job whose due-time execution has finished, completed or failed,
\* and no cancelled job is in the result.
C17_ListOnlyUnexecuted ==
    \A u \in Users : \A id \in ListedIds(u) :
       ~Executed(id) /\ ~CancelledJob(id)


\* the job identifiers the successful schedule calls have returned so far
ReturnedIds == {i.jobId : i \in issued}

\* the step answers a schedule call with a job identifier
Scheduled == response'.req.call = "schedule" /\ response'.body = "scheduled"

\* C18: job identifiers are unique: a successful schedule call never returns
\* an identifier that an earlier successful schedule call has returned, on
\* the durable backend not even for the same owner at the same timestamp.
C18_JobIdsUnique ==
    [][Scheduled => response'.jobId \notin ReturnedIds]_vars


\* the invocations of Post.createPost made for a job once the step is taken
CallsAfter(jobId) == {p \in posts' : p.job = jobId}

\* Post.createPost rejects in this step
Rejects == failures' # failures

\* C19: on the durable backend the worker invokes createPost for one job at
\* most `attempts` (3) times: a failed attempt below the limit puts the job
\* back for a retry, a successful attempt completes the job, a completed or
\* failed job is never processed again, and a job is failed only by its
\* third failed attempt.
C19_AtMostThreeAttempts ==
    [][\A id \in DOMAIN bullJobs :
          LET job == bullJobs[id]
              kept == id \in DOMAIN bullJobs'
          IN  /\ Cardinality(CallsAfter(id)) <= attempts
              /\ job.state \in {"completed", "failed"} =>
                    /\ CallsAfter(id) = Calls(id)
                    /\ kept => bullJobs'[id] = job
              /\ job.state = "failed" =>
                    /\ job.attemptsMade = attempts
                    /\ Cardinality(Calls(id)) = attempts
              /\ job.state = "active" =>
                    /\ kept
                    /\ Cardinality(Calls(id)) = job.attemptsMade + 1
                    /\ bullJobs'[id].state # "active" =>
                          bullJobs'[id].state =
                             IF ~Rejects THEN "completed"
                             ELSE IF job.attemptsMade + 1 < attempts
                                  THEN "delayed" ELSE "failed"]_vars

\* a job that has failed after its third attempt
C19_Witness ==
    \E id \in DOMAIN bullJobs :
       /\ bullJobs[id].state = "failed"
       /\ bullJobs[id].attemptsMade = attempts
       /\ Cardinality(Calls(id)) = attempts


\* C20: every post the due-time execution creates, on either backend, has
\* as its author the owner given to the schedule call that issued the job
\* and as its content the content given to that call; an author named inside
\* postData never replaces the owner.
C20_AuthorIsOwner ==
    \A p \in posts :
       \E i \in issued :
          /\ i.jobId = p.job
          /\ i.userId = p.user_id
          /\ i.content = p.content

\* the postData of the job names an author other than the job's owner
ForeignAuthor(postData, userId) ==
    "user_id" \in DOMAIN postData /\ postData.user_id # userId

\* a job whose postData names another user as author was executed by the
\* worker and its post is authored by the job's owner
C20_Witness ==
    \E id \in DOMAIN bullJobs :
       /\ ForeignAuthor(bullJobs[id].data.postData, bullJobs[id].data.userId)
       /\ bullJobs[id].state = "completed"
       /\ \E p \in Calls(id) : p.user_id = bullJobs[id].data.userId


\* a job under the identifier exists and belongs to an owner other than u
ExistsForOther(u, id) ==
    \/ id \in DOMAIN inMemoryJobs /\ inMemoryJobs[id].userId # u
    \/ id \in DOMAIN bullJobs /\ bullJobs[id].data.userId # u

\* no job exists under the identifier
Unknown(id) == id \notin DOMAIN inMemoryJobs /\ id \notin DOMAIN bullJobs

\* the step answers a REST cancel request of u for id on its arrival
RestCancelArrives(u, id) ==
    /\ RestCancel(u, id)
    /\ CancelReq("rest", u, id) \notin pending

\* C21: through the REST cancel endpoint a request for a job of another
\* owner and a request for an identifier under which no job exists get the
\* same answer, status 404 with the same message, and both leave the
\* scheduler state as it is, so the caller cannot tell the two cases apart.
C21_ForeignLikeUnknown ==
    [][LET u == response'.req.userId
           id == response'.req.jobId
       IN  (RestCancelArrives(u, id) /\ (ExistsForOther(u, id) \/ Unknown(id))) =>
              /\ response'.status = "404"
              /\ response'.body = NotOwnedMsg
              /\ UNCHANGED <<schedulerState, pending>>]_vars

\* REST has answered 404 to a caller who named an identifier under which no
\* job exists, while a job of another owner exists
C21_Witness ==
    /\ response.req.op = "rest"
    /\ response.req.call = "cancel"
    /\ Unknown(response.req.jobId)
    /\ response.status = "404"
    /\ response.body = NotOwnedMsg
    /\ \E id \in KnownIds : ExistsForOther(response.req.userId, id)


\* the startup probe has returned in this step
ProbeReturns == ~initDone /\ initDone'

\* C22: the startup probe leaves no residual state in Redis: the job it has
\* enqueued is removed or kept apart from the 'scheduled posts' queue, whose
\* jobs are what they were before the probe, and repeated process starts do
\* not accumulate probe jobs: a start that finds probe jobs of earlier
\* starts in the queue 'test' adds none to them.
C22_ProbeLeavesNothing ==
    [][ProbeReturns =>
          /\ testQueue > 0 => testQueue' <= testQueue
          /\ bullJobs' = bullJobs]_vars


\* the step answers a cancel call for the job id
CancelAnswered(id) ==
    response'.req.call = "cancel" /\ response'.req.jobId = id

\* C23: cancel(jobId) affects only the job with that identifier: every other
\* job of the in-memory map keeps its record, its place in the map and its
\* timer, whether the cancel succeeds or throws not-found, and the job-id
\* counter keeps its value.
C23_CancelTouchesOnlyItsJob ==
    [][\A id \in CancelIds :
          CancelAnswered(id) =>
             /\ jobIdCounter' = jobIdCounter
             /\ \A other \in DOMAIN inMemoryJobs \ {id} :
                   /\ other \in DOMAIN inMemoryJobs'
                   /\ inMemoryJobs'[other] = inMemoryJobs[other]
                   /\ timers'[other] = timers[other]]_vars

\* a cancel has removed one job while another job is in the map with its
\* timer pending
C23_Witness ==
    /\ response.req.call = "cancel"
    /\ response.body = "cancelled"
    /\ response.req.jobId \notin DOMAIN inMemoryJobs
    /\ \E other \in DOMAIN inMemoryJobs :
          /\ other # response.req.jobId
          /\ inMemoryJobs[other].status = "scheduled"
          /\ timers[other].state = "armed"


\* C24: no publish failure is lost: whenever createPost fails for a job on
\* the fallback, the job's record exists afterwards with status 'failed' and
\* the error message, whatever cancel calls were made while the execution
\* was in flight.
C24_FailureRecorded ==
    [][\A id \in DOMAIN timers :
          (CallbackEnds(id) /\ Rejects) =>
             /\ id \in DOMAIN inMemoryJobs'
             /\ inMemoryJobs'[id].status = "failed"
             /\ inMemoryJobs'[id].error = PublishErr]_vars


\* the job is in the map with status 'scheduled'
WaitsScheduled(id) ==
    id \in DOMAIN inMemoryJobs /\ inMemoryJobs[id].status = "scheduled"

\* the job has left the 'scheduled' state: its post was created and its entry
\* removed, its failure is recorded on its entry, or a cancel has removed it
Settled(id) ==
    \/ id \in DOMAIN inMemoryJobs /\ inMemoryJobs[id].status = "failed"
    \/ id \notin DOMAIN inMemoryJobs /\ id \in DOMAIN timers
                                     /\ timers[id].state = "done"
    \/ id \notin DOMAIN inMemoryJobs /\ \E i \in issued : i.jobId = id

\* C25: no job is lost while the process runs: on the fallback, when timers
\* fire and Post.createPost answers, every job that schedule has accepted
\* eventually leaves the 'scheduled' state, its post created and its entry
\* removed or its failure recorded, unless a cancel removes it; and no job
\* is published twice.
C25_NoJobLost ==
    /\ \A id \in MemoryIds : WaitsScheduled(id) ~> Settled(id)
    /\ [](\A id \in DOMAIN timers : Cardinality(Calls(id)) <= 1)

\* a job that was never cancelled has left the 'scheduled' state with its
\* post created
C25_Witness ==
    \E id \in DOMAIN timers :
       /\ timers[id].state = "done"
       /\ id \notin DOMAIN inMemoryJobs
       /\ Cardinality(Calls(id)) = 1
       /\ failures = 0


\* the entry has an error field
HasError(job) == job.error # NoError

\* C26: each entry of the fallback map has status 'scheduled' or 'failed' and
\* has an error field exactly when its status is 'failed'; an entry starts
\* with status 'scheduled' and without error, and its postData, userId and
\* scheduledTime never change after its creation.
C26_EntryShape ==
    /\ [](\A id \in DOMAIN inMemoryJobs :
             /\ inMemoryJobs[id].status \in {"scheduled", "failed"}
             /\ HasError(inMemoryJobs[id]) <=> inMemoryJobs[id].status = "failed")
    /\ [][/\ \A id \in DOMAIN inMemoryJobs' \ DOMAIN inMemoryJobs :
                /\ inMemoryJobs'[id].status = "scheduled"
                /\ ~HasError(inMemoryJobs'[id])
          /\ \A id \in DOMAIN inMemoryJobs' \cap DOMAIN inMemoryJobs :
                /\ inMemoryJobs'[id].postData = inMemoryJobs[id].postData
                /\ inMemoryJobs'[id].userId = inMemoryJobs[id].userId
                /\ inMemoryJobs'[id].scheduledTime = inMemoryJobs[id].scheduledTime]_vars

\* an entry whose publish has failed carries the error and still the
\* postData, owner and time it was scheduled with
C26_Witness ==
    \E id \in DOMAIN inMemoryJobs : \E i \in issued :
       /\ i.jobId = id
       /\ inMemoryJobs[id].status = "failed"
       /\ HasError(inMemoryJobs[id])
       /\ inMemoryJobs[id].postData.content = i.content
       /\ inMemoryJobs[id].userId = i.userId
       /\ inMemoryJobs[id].scheduledTime = i.scheduledTime


\* the step answers a REST cancel request that has passed its ownership
\* check in an earlier step
RestCancelResumes(u, id) ==
    /\ RestCancel(u, id)
    /\ CancelReq("rest", u, id) \in pending

\* C27: the REST cancel path checks the ownership and then cancels, with
\* suspension points in between: whatever runs between the two steps, the
\* job's execution or another cancel of the same job, the request is
\* answered with success or with the not-found rejection (404), never with a
\* server error (500), and the job's timer publishes at most once.
C27_RaceAnswersNotFound ==
    [][\A u \in Users, id \in CancelIds :
          /\ RestCancelResumes(u, id) =>
                /\ response'.status \in {"20x", "404"}
                /\ ~StillScheduled(id) => response'.status = "404"
          /\ RestCancel(u, id) => response'.status # "500"
          /\ IsMemId(id) => Cardinality(CallsAfter(id)) <= 1]_vars


\* the step answers a REST schedule request
RestSchedule == response'.req.call = "schedule" /\ response'.req.op = "rest"

\* C28: the future-time check is made twice, against the controller's clock
\* reading and then against the facade's: however much time passes between
\* the two readings, a request that has passed the controller's check is
\* accepted by the facade, and a time that is not in the future is reported
\* as the validation rejection (400) and never as a server error (500).
C28_FutureCheckAnswers400 ==
    [][RestSchedule =>
          /\ response'.body = FutureMsg => response'.status = "400"
          /\ pending' # pending => response'.body = "scheduled"]_vars


\* C29: on the durable backend every job of a listing carries the
\* scheduledTime that was passed to schedule, and a job that has become due
\* and waits for the worker is not reported with status 'scheduled'.
C29_BullListingTime ==
    UseBull =>
       \A u \in Users : \A view \in getScheduledPosts(u) :
          /\ \E i \in issued : /\ i.jobId = view.jobId
                               /\ view.scheduledTime = i.scheduledTime
          /\ bullJobs[view.jobId].state = "waiting" => view.status # "scheduled"


\* the step answers a call of getQueueStats
StatsAnswered == response'.req.call = "stats"

\* C30: in every reachable state the stats satisfy total = waiting + active
\* + completed + failed + delayed; on the fallback waiting, active and
\* completed are 0, delayed is the number of map entries with status
\* 'scheduled', failed the number with status 'failed' and total the size of
\* the map; and a call of stats changes no state.
C30_StatsAddUp ==
    /\ [](LET stats == getQueueStats
          IN  /\ stats.total = stats.waiting + stats.active + stats.completed
                               + stats.failed + stats.delayed
              /\ stats.type = "in-memory" =>
                    /\ stats.waiting = 0 /\ stats.active = 0 /\ stats.completed = 0
                    /\ stats.delayed = Cardinality({id \in DOMAIN inMemoryJobs :
                                           inMemoryJobs[id].status = "scheduled"})
                    /\ stats.failed = Cardinality({id \in DOMAIN inMemoryJobs :
                                          inMemoryJobs[id].status = "failed"})
                    /\ stats.total = Cardinality(DOMAIN inMemoryJobs))
    /\ [][StatsAnswered =>
             UNCHANGED <<now, initDone, schedulerState, testQueue, failures,
                         pending>>]_vars

\* stats was called on the fallback while the map held an entry whose
\* publish had failed
C30_Witness ==
    /\ response.req.call = "stats"
    /\ response.body = "in-memory"
    /\ getQueueStats.failed > 0
    /\ getQueueStats.total = getQueueStats.failed

====
